---- MODULE Spec2Model ----
(***************************************************************************)
(* Model of ByteCursor (src/src/bytecursor.rs): a growable byte vector     *)
(* `inner` and an unsigned position `pos`, with read, read_exact,          *)
(* fill_buf, seek, set_position, position, write and write_all.            *)
(*                                                                         *)
(* Integer ranges are scaled down so that every value of each type can be  *)
(* enumerated: isize is -(ISIZE_MAX+1)..ISIZE_MAX, usize is 0..USIZE_MAX   *)
(* with USIZE_MAX = 2*ISIZE_MAX + 1, and u64 holds WIDTH_RATIO times as    *)
(* many values as usize (the real ratio is 1 on a 64-bit host and 2^32 on  *)
(* a 32-bit host).  All width dependent arithmetic (casts, checked_add,    *)
(* checked_sub, wrapping_neg, try_into) is computed modulo these ranges    *)
(* exactly as the code computes it modulo 2^64 and 2^(pointer width).      *)
(* A Vec<u8> holds at most isize::MAX bytes; asking it to grow beyond that *)
(* panics with "capacity overflow".  Memory below that limit is assumed to *)
(* be available.                                                           *)
(***************************************************************************)
EXTENDS Integers, Sequences, FiniteSets, TLC

\* ---------------------------------------------------------------- bounds
\* isize::MAX (scaled): the largest length of a Vec<u8>
ISIZE_MAX == 3
\* number of usize ranges that make up the u64 range (scaled)
WIDTH_RATIO == 2
\* byte values are 0..MaxByte
MaxByte == 1
\* longest caller-supplied buffer passed to read / read_exact / write / write_all
MaxBufLen == 2

\* ---------------------------------------------------------------- integer types
USIZE_MAX == 2 * ISIZE_MAX + 1
U64_MAX == (USIZE_MAX + 1) * WIDTH_RATIO - 1
I64_MAX == (U64_MAX - 1) \div 2
I64_MIN == 0 - I64_MAX - 1

U64 == 0..U64_MAX
I64 == I64_MIN..I64_MAX
Byte == 0..MaxByte

\* all sequences over S of length at most n
SeqsUpTo(S, n) == UNION {[1..k -> S] : k \in 0..n}

\* Vec<u8>: at most isize::MAX bytes
Vecs == SeqsUpTo(Byte, ISIZE_MAX)
\* caller-supplied slices
Bufs == SeqsUpTo(Byte, MaxBufLen)

\* `x as u64` (two's complement reinterpretation / zero extension)
as_u64(x) == x % (U64_MAX + 1)
\* `x as usize` (truncating)
as_usize(x) == x % (USIZE_MAX + 1)

\* i64::wrapping_neg
wrapping_neg_saturating(x) == IF x = I64_MIN THEN I64_MAX ELSE 0 - x
wrapping_neg(x) ==
  LET m == (0 - x) % (U64_MAX + 1)
  IN  IF m > I64_MAX THEN m - (U64_MAX + 1) ELSE m

\* Option<u64>: [some |-> BOOLEAN, val |-> u64]
None == [some |-> FALSE, val |-> 0]
Some(v) == [some |-> TRUE, val |-> v]

\* u64::checked_add / u64::checked_sub
checked_add(a, b) == IF a + b > U64_MAX THEN None ELSE Some(a + b)
checked_sub(a, b) == IF a - b < 0 THEN None ELSE Some(a - b)

\* cmp::min
min(a, b) == IF a <= b THEN a ELSE b

\* SeekFrom
Start(n) == [tag |-> "Start", n |-> n]
End(n) == [tag |-> "End", n |-> n]
Current(n) == [tag |-> "Current", n |-> n]
SeekFrom == {Start(n) : n \in U64} \cup {End(n) : n \in I64} \cup {Current(n) : n \in I64}
NoStyle == [tag |-> "none", n |-> 0]

\* ---------------------------------------------------------------- state
\* inner, pos: the fields of the ByteCursor
\* last: the call that just ended (name, arguments, state before, outcome),
\*       or NoCall once the caller has taken its result
\* roundtrip: progress of a write-at-0 / seek(Start(0)) / read-back sequence
\* wa: the frame of a write_all call executed one loop iteration at a time
\*     (the remaining slice `buf`, the argument, the number of write calls
\*     made so far and the cursor at entry); idle when no such call runs
VARIABLES inner, pos, last, roundtrip, wa
vars == <<inner, pos, last, roundtrip, wa>>

\* the value of a ByteCursor
Self == [inner |-> inner, pos |-> pos]

\* outcome of a method: the cursor and the caller's buffer afterwards, how the
\* call ended ("ok" = returned / Ok, "err" = Err, "panic" = panicked,
\* "overflow" = arithmetic overflow: panic in a debug build, wrapped value in a
\* release build), the returned number, the error message, the returned slice
\* and the number of inner write calls made
Outcome(i, p, b, k, r, m) ==
  [inner |-> i, pos |-> p, buf |-> b, kind |-> k, ret |-> r, msg |-> m,
   slice |-> <<>>, calls |-> 0]

\* ---------------------------------------------------------------- seek
seek_moves_on_error(self, style) ==
  IF style.tag = "Start"
    THEN Outcome(self.inner, style.n, <<>>, "ok", style.n, "")
    ELSE LET base_pos == IF style.tag = "End" THEN as_u64(Len(self.inner)) ELSE self.pos
             offset == style.n
         IN  IF 0 <= base_pos + offset /\ base_pos + offset <= U64_MAX
               THEN Outcome(self.inner, base_pos + offset, <<>>, "ok", base_pos + offset, "")
               ELSE Outcome(self.inner, as_u64(base_pos + offset), <<>>, "err", 0,
                            "invalid seek to a negative or overflowing position")

seek(self, style) ==
  IF style.tag = "Start"
    THEN Outcome(self.inner, style.n, <<>>, "ok", style.n, "")
    ELSE LET base_pos == IF style.tag = "End" THEN as_u64(Len(self.inner)) ELSE self.pos
             offset == style.n
             new_pos == IF offset >= 0
                          THEN checked_add(base_pos, as_u64(offset))
                          ELSE checked_sub(base_pos, as_u64(wrapping_neg(offset)))
         IN  IF new_pos.some
               THEN Outcome(self.inner, new_pos.val, <<>>, "ok", new_pos.val, "")
               ELSE Outcome(self.inner, self.pos, <<>>, "err", 0,
                            "invalid seek to a negative or overflowing position")

\* ---------------------------------------------------------------- bookkeeping
\* record of the last call: its name and arguments, the cursor and the
\* caller's buffer before it, and its outcome
Call(op, style, buf0, o) ==
  [op |-> op, style |-> style, inner0 |-> inner, pos0 |-> pos, buf0 |-> buf0,
   buf |-> o.buf, kind |-> o.kind, ret |-> o.ret, msg |-> o.msg,
   slice |-> o.slice, calls |-> o.calls]

NoCall ==
  [op |-> "none", style |-> NoStyle, inner0 |-> <<>>, pos0 |-> 0, buf0 |-> <<>>,
   buf |-> <<>>, kind |-> "ok", ret |-> 0, msg |-> "", slice |-> <<>>, calls |-> 0]

WaIdle ==
  [pc |-> "idle", buf |-> <<>>, arg |-> <<>>, calls |-> 0, inner0 |-> <<>>, pos0 |-> 0]

\* a call that panicked (or overflowed) ends the program
Running == last.kind \in {"ok", "err"}

\* stage 1: buf0 was written at position 0; stage 2: then seek(Start(0));
\* stage 3: then a read into a buffer as long as the data written
RoundTripStep(op, style, buf0, o) ==
  IF op = "write" /\ pos = 0 /\ o.kind = "ok"
    THEN [stage |-> 1, d |-> buf0]
  ELSE IF op = "seek" /\ style = Start(0) /\ roundtrip.stage = 1
    THEN [stage |-> 2, d |-> roundtrip.d]
  ELSE IF op = "read" /\ roundtrip.stage = 2 /\ Len(buf0) = Len(roundtrip.d)
    THEN [stage |-> 3, d |-> roundtrip.d]
  ELSE [stage |-> 0, d |-> <<>>]

Apply(op, style, buf0, o) ==
  /\ last = NoCall
  /\ inner' = o.inner
  /\ pos' = o.pos
  /\ last' = Call(op, style, buf0, o)
  /\ roundtrip' = RoundTripStep(op, style, buf0, o)
  /\ wa = WaIdle
  /\ wa' = wa

\* ByteCursor::new(inner): any vector, position 0
Init ==
  /\ inner \in Vecs
  /\ pos = 0
  /\ last = NoCall
  /\ roundtrip = [stage |-> 0, d |-> <<>>]
  /\ wa = WaIdle

\* the call returns (Ok or Err) and the caller goes on to its next call
Return ==
  /\ last # NoCall
  /\ Running
  /\ last' = NoCall
  /\ roundtrip' = IF roundtrip.stage = 3 THEN [stage |-> 0, d |-> <<>>] ELSE roundtrip
  /\ UNCHANGED <<inner, pos, wa>>

Seek == \E style \in SeekFrom : Apply("seek", style, <<>>, seek(Self, style))

\* set_position(pos)
set_position(self, p) == Outcome(self.inner, p, <<>>, "ok", 0, "")
SetPosition == \E p \in U64 : Apply("set_position", Start(p), <<>>, set_position(Self, p))

\* position()
position(self) == Outcome(self.inner, self.pos, <<>>, "ok", self.pos, "")
Position == Apply("position", NoStyle, <<>>, position(Self))

\* ---------------------------------------------------------------- slices
\* s[start..] (0-based start)
slice_from(s, start) == SubSeq(s, start + 1, Len(s))
\* s.split_at(mid)
split_at(s, mid) == <<SubSeq(s, 1, mid), SubSeq(s, mid + 1, Len(s))>>
\* dst[start..start + src.len()].copy_from_slice(src) (0-based start)
copy_from_slice_shifted(dst, start, src) ==
  [i \in 1..Len(dst) |->
     IF start + 1 < i /\ i <= start + 1 + Len(src) THEN src[i - start - 1] ELSE dst[i]]
copy_from_slice(dst, start, src) ==
  [i \in 1..Len(dst) |->
     IF start < i /\ i <= start + Len(src) THEN src[i - start] ELSE dst[i]]
\* vec.resize(new_len, value)
resize_uninit(vec, new_len, value) ==
  IF new_len > Len(vec)
    THEN vec \o [i \in 1..(new_len - Len(vec)) |-> MaxByte]
    ELSE SubSeq(vec, 1, new_len)
resize(vec, new_len, value) ==
  IF new_len > Len(vec)
    THEN vec \o [i \in 1..(new_len - Len(vec)) |-> value]
    ELSE SubSeq(vec, 1, new_len)
\* Vec growth to n bytes fails with a "capacity overflow" panic above isize::MAX
capacity_overflow(n) == n > ISIZE_MAX

\* ---------------------------------------------------------------- reading
fill_buf_unclamped(self) ==
  [Outcome(self.inner, self.pos, <<>>, "ok", 0, "")
     EXCEPT !.slice = slice_from(self.inner, as_usize(self.pos))]
fill_buf(self) ==
  LET amt == min(self.pos, as_u64(Len(self.inner)))
  IN  [Outcome(self.inner, self.pos, <<>>, "ok", 0, "")
         EXCEPT !.slice = slice_from(self.inner, as_usize(amt))]

FillBuf == Apply("fill_buf", NoStyle, <<>>, fill_buf(Self))

\* self.pos += n (u64 addition)
add_assign(self, buf, n) ==
  IF self.pos + n > U64_MAX
    THEN Outcome(self.inner, as_u64(self.pos + n), buf, "overflow", n, "attempt to add with overflow")
    ELSE Outcome(self.inner, self.pos + n, buf, "ok", n, "")

read_drains(self, buf) ==
  LET from == fill_buf(self).slice
      amt == min(Len(buf), Len(from))
      ab == split_at(from, amt)
  IN  add_assign([inner |-> SubSeq(self.inner, 1, Len(self.inner) - Len(from)) \o ab[2],
                  pos |-> self.pos], copy_from_slice(buf, 0, ab[1]), amt)
read_whole_buf(self, buf) ==
  LET from == fill_buf(self).slice
      amt == min(Len(buf), Len(from))
      ab == split_at(from, amt)
  IN  [add_assign(self, copy_from_slice(buf, 0, ab[1]), Len(buf)) EXCEPT !.ret = amt]
read_no_single(self, buf) ==
  LET from == fill_buf(self).slice
      amt == min(Len(buf), Len(from))
      ab == split_at(from, amt)
  IN  add_assign(self, IF amt = 1 THEN buf ELSE copy_from_slice(buf, 0, ab[1]), amt)
read(self, buf) ==
  LET from == fill_buf(self).slice
      amt == min(Len(buf), Len(from))
      ab == split_at(from, amt)
      a == ab[1]
      buf1 == IF amt = 1
                THEN [buf EXCEPT ![1] = a[1]]
                ELSE copy_from_slice(buf, 0, a)
  IN  add_assign(self, buf1, amt)

Read == \E buf \in Bufs : Apply("read", NoStyle, buf, read(Self, buf))

read_exact_partial(self, buf) ==
  LET from == fill_buf(self).slice
  IN  IF Len(buf) > Len(from)
        THEN [read(self, buf) EXCEPT !.kind = "err", !.ret = 0,
                                     !.msg = "failed to fill whole buffer"]
        ELSE [read(self, buf) EXCEPT !.ret = 0]
read_exact_no_advance(self, buf) ==
  LET from == fill_buf(self).slice
  IN  IF Len(buf) > Len(from)
        THEN Outcome(self.inner, self.pos, buf, "err", 0, "failed to fill whole buffer")
        ELSE Outcome(self.inner, self.pos, copy_from_slice(buf, 0, split_at(from, Len(buf))[1]),
                     "ok", 0, "")
read_exact(self, buf) ==
  LET n == Len(buf)
      from == fill_buf(self).slice
  IN  IF Len(buf) > Len(from)
        THEN Outcome(self.inner, self.pos, buf, "err", 0, "failed to fill whole buffer")
        ELSE LET ab == split_at(from, Len(buf))
                 a == ab[1]
                 buf1 == IF Len(buf) = 1
                           THEN [buf EXCEPT ![1] = a[1]]
                           ELSE copy_from_slice(buf, 0, a)
             IN  [add_assign(self, buf1, n) EXCEPT !.ret = 0]

ReadExact == \E buf \in Bufs : Apply("read_exact", NoStyle, buf, read_exact(Self, buf))

\* ---------------------------------------------------------------- writing
\* usize::try_from(u64)
try_into(p) == IF p > USIZE_MAX THEN None ELSE Some(p)

\* faulty variants of write: "no_gap" appends at the end instead of filling
\* the gap, "no_extend" writes only into the existing space, "one_byte" writes
\* a single byte per call, "truncates" cuts the vector after the written region
write_variant(self, buf, v) ==
  IF ~try_into(self.pos).some
    THEN Outcome(self.inner, self.pos, buf, "err", 0,
                 "cursor position exceeds maximum possible vector length")
  ELSE IF Len(self.inner) < self.pos /\ v # "no_gap" /\ capacity_overflow(self.pos)
    THEN Outcome(self.inner, self.pos, buf, "panic", 0, "capacity overflow")
  ELSE
    LET p == self.pos
        vec1 == IF Len(self.inner) < p /\ v # "no_gap"
                  THEN resize(self.inner, p, 0) ELSE self.inner
        at == min(p, Len(vec1))
        data == IF v = "one_byte" THEN SubSeq(buf, 1, min(1, Len(buf))) ELSE buf
        lr == split_at(data, min(Len(vec1) - at, Len(data)))
        vec2 == copy_from_slice(vec1, at, lr[1])
        vec3 == IF v = "no_extend" THEN vec2 ELSE vec2 \o lr[2]
        n == IF v = "no_extend" THEN Len(lr[1]) ELSE Len(data)
        vec4 == IF v = "truncates" THEN SubSeq(vec3, 1, min(Len(vec3), p + n)) ELSE vec3
    IN  IF capacity_overflow(Len(vec3))
          THEN Outcome(vec2, self.pos, buf, "panic", 0, "capacity overflow")
          ELSE Outcome(vec4, as_u64(as_usize(p + n)), buf, "ok", n, "")
write_no_gap(self, buf) == write_variant(self, buf, "no_gap")
write_no_extend(self, buf) == write_variant(self, buf, "no_extend")
write_one_byte(self, buf) == write_variant(self, buf, "one_byte")
write_truncates(self, buf) == write_variant(self, buf, "truncates")
write(self, buf) ==
  LET vec == self.inner
      conv == try_into(self.pos)
  IN  IF ~conv.some
        THEN Outcome(vec, self.pos, buf, "err", 0,
                     "cursor position exceeds maximum possible vector length")
        ELSE
          LET p == conv.val
              len == Len(vec)
          IN  IF len < p /\ capacity_overflow(p)
                THEN Outcome(vec, self.pos, buf, "panic", 0, "capacity overflow")
                ELSE
                  LET vec1 == IF len < p THEN resize(vec, p, 0) ELSE vec
                      space == Len(vec1) - p
                      lr == split_at(buf, min(space, Len(buf)))
                      left == lr[1]
                      right == lr[2]
                      vec2 == copy_from_slice(vec1, p, left)
                  IN  IF Len(right) > 0 /\ capacity_overflow(Len(vec2) + Len(right))
                        THEN Outcome(vec2, self.pos, buf, "panic", 0, "capacity overflow")
                        ELSE Outcome(vec2 \o right, as_u64(as_usize(p + Len(buf))), buf,
                                     "ok", Len(buf), "")

Write == \E buf \in Bufs : Apply("write", NoStyle, buf, [write(Self, buf) EXCEPT !.calls = 1])

RECURSIVE write_all_swallows(_, _, _)
write_all_swallows(self, buf, calls) ==
  IF Len(buf) = 0
    THEN [Outcome(self.inner, self.pos, buf, "ok", 0, "") EXCEPT !.calls = calls]
    ELSE LET w == write(self, buf)
         IN  IF w.kind = "ok" /\ w.ret > 0
               THEN write_all_swallows([inner |-> w.inner, pos |-> w.pos],
                                       slice_from(buf, w.ret), calls + 1)
               ELSE [w EXCEPT !.kind = IF w.kind = "panic" THEN "panic" ELSE "ok",
                              !.ret = 0, !.calls = calls + 1]

RECURSIVE write_all(_, _, _)
write_all(self, buf, calls) ==
  IF Len(buf) = 0
    THEN [Outcome(self.inner, self.pos, buf, "ok", 0, "") EXCEPT !.calls = calls]
    ELSE LET w == write(self, buf)
         IN  IF w.kind = "ok" /\ w.ret = 0
               THEN [w EXCEPT !.kind = "err", !.msg = "failed to write whole buffer",
                              !.calls = calls + 1]
               ELSE IF w.kind = "ok"
                 THEN write_all([inner |-> w.inner, pos |-> w.pos],
                                slice_from(buf, w.ret), calls + 1)
                 ELSE [w EXCEPT !.ret = 0, !.calls = calls + 1]

WriteAll ==
  \E buf \in Bufs :
    Apply("write_all", NoStyle, buf, [write_all(Self, buf, 0) EXCEPT !.buf = buf])

\* ---------------------------------------------------------------- write_all, step by step
\* the call write_all(buf) starts: `buf` is the whole argument
WriteAllEnter ==
  \E buf \in Bufs :
    /\ last = NoCall
    /\ wa = WaIdle
    /\ wa' = [pc |-> "loop", buf |-> buf, arg |-> buf, calls |-> 0,
              inner0 |-> inner, pos0 |-> pos]
    /\ UNCHANGED <<inner, pos, last, roundtrip>>

\* write_all returns (or unwinds): the call is recorded and the frame dropped
WriteAllLeave(kind, msg, calls) ==
  /\ last' = [op |-> "write_all", style |-> NoStyle, inner0 |-> wa.inner0,
              pos0 |-> wa.pos0, buf0 |-> wa.arg, buf |-> wa.arg, kind |-> kind,
              ret |-> 0, msg |-> msg, slice |-> <<>>, calls |-> calls]
  /\ wa' = WaIdle
  /\ roundtrip' = [stage |-> 0, d |-> <<>>]

\* one iteration of `while !buf.is_empty()`: match self.write(buf)
WriteAllIterate ==
  /\ wa.pc = "loop"
  /\ Len(wa.buf) > 0
  /\ LET w == write(Self, wa.buf)
     IN  /\ inner' = w.inner
         /\ pos' = w.pos
         /\ IF w.kind = "ok" /\ w.ret = 0
              THEN WriteAllLeave("err", "failed to write whole buffer", wa.calls + 1)
            ELSE IF w.kind = "ok"
              THEN /\ wa' = [wa EXCEPT !.buf = slice_from(wa.buf, w.ret), !.calls = @ + 1]
                   /\ UNCHANGED <<last, roundtrip>>
            ELSE WriteAllLeave(w.kind, w.msg, wa.calls + 1)

\* the loop condition is false: Ok(())
WriteAllExit ==
  /\ wa.pc = "loop"
  /\ Len(wa.buf) = 0
  /\ WriteAllLeave("ok", "", wa.calls)
  /\ UNCHANGED <<inner, pos>>

LoopNext ==
  \/ SetPosition
  \/ Return
  \/ WriteAllEnter
  \/ WriteAllIterate
  \/ WriteAllExit

\* a call, once started, runs to its end: the loop is synchronous code
LoopSpec ==
  /\ Init
  /\ [][LoopNext]_vars
  /\ WF_vars(WriteAllIterate)
  /\ WF_vars(WriteAllExit)

Next ==
  \/ Read
  \/ ReadExact
  \/ FillBuf
  \/ Seek
  \/ SetPosition
  \/ Position
  \/ Write
  \/ WriteAll
  \/ Return

Spec == Init /\ [][Next]_vars
\* ================================================================ properties
\* remaining readable length of a cursor (bytes, position)
Remaining(bytes, p) == Len(bytes) - min(p, Len(bytes))

\* C1: read_exact is all-or-nothing: when the destination buffer is longer than
\* the remaining readable length, read_exact returns an error and the buffer,
\* the position and the bytes are exactly what they were before the call.
C1_ReadExactAllOrNothing ==
  (last.op = "read_exact" /\ Len(last.buf0) > Remaining(last.inner0, last.pos0))
    => /\ last.kind = "err"
       /\ last.buf = last.buf0
       /\ pos = last.pos0
       /\ inner = last.inner0

\* a failing read_exact that had some, but not enough, data to read
C1_Witness ==
  /\ last.op = "read_exact"
  /\ Remaining(last.inner0, last.pos0) = 1
  /\ Len(last.buf0) = 2
  /\ last.buf0[1] # last.inner0[last.pos0 + 1]
  /\ last.kind = "err"

\* base of a seek: 0 for Start, len(bytes) for End, the position for Current
SeekBase == IF last.style.tag = "End" THEN Len(last.inner0)
            ELSE IF last.style.tag = "Current" THEN last.pos0 ELSE 0

\* C2: seek computes base + n over the mathematical integers: it succeeds iff
\* 0 <= base + n <= u64::MAX, and then the new position and the returned value
\* both equal base + n (Start(n) always succeeds with position n).
C2_SeekExact ==
  last.op = "seek"
    => LET target == SeekBase + last.style.n
       IN  /\ last.kind = "ok" <=> (0 <= target /\ target <= U64_MAX)
           /\ last.kind = "ok" => (pos = target /\ last.ret = target)
           /\ last.kind \in {"ok", "err"}

\* seek(Current(i64::MIN)) succeeding from a position of at least 2^63
C2_Witness ==
  /\ last.op = "seek"
  /\ last.style = Current(I64_MIN)
  /\ last.pos0 > 0 - I64_MIN
  /\ last.pos0 < U64_MAX
  /\ last.kind = "ok"
  /\ pos = last.pos0 + I64_MIN

\* C3: a failed seek leaves position and bytes identical to their values
\* before the call.
C3_FailedSeekUnmodified ==
  (last.op = "seek" /\ last.kind = "err")
    => (pos = last.pos0 /\ inner = last.inner0)

\* a seek that failed from a non-zero position on a non-empty buffer
C3_Witness ==
  /\ last.op = "seek"
  /\ last.kind = "err"
  /\ last.pos0 > 0
  /\ Len(last.inner0) > 0
  /\ pos = last.pos0

\* C4: write has exactly two outcomes: an error with bytes and position
\* unmodified when the position does not convert to usize, and otherwise a
\* complete write of buf returning len(buf).
C4_WriteTwoOutcomes ==
  last.op = "write"
    => IF last.pos0 > USIZE_MAX
         THEN last.kind = "err" /\ inner = last.inner0 /\ pos = last.pos0
         ELSE /\ last.kind = "ok"
              /\ last.ret = Len(last.buf0)
              /\ pos = last.pos0 + Len(last.buf0)
              /\ Len(inner) >= last.pos0 + Len(last.buf0)
              /\ SubSeq(inner, last.pos0 + 1, last.pos0 + Len(last.buf0)) = last.buf0

\* the effect the gap zero-fill describes, for a write of buf0 at pos0 > L
GapZeroFilled ==
  LET L == Len(last.inner0)
      p == last.pos0
  IN  /\ Len(inner) = p + Len(last.buf0)
      /\ SubSeq(inner, 1, L) = last.inner0
      /\ \A i \in (L + 1)..p : inner[i] = 0
      /\ SubSeq(inner, p + 1, p + Len(last.buf0)) = last.buf0

\* C5 as stated: after a write at any position p > L the gap is zero-filled
\* and the buffer ends with buf.
C5_GapZeroFillAnyPosition ==
  (last.op = "write" /\ last.pos0 > Len(last.inner0)) => GapZeroFilled

\* C5 as amended: a write at p > L with p + len(buf) <= isize::MAX succeeds,
\* and every write at p > L that succeeds leaves bytes[0, L) unchanged,
\* [L, p) zero, [p, p + len(buf)) equal to buf and len(bytes) = p + len(buf).
C5_GapZeroFill ==
  (last.op = "write" /\ last.pos0 > Len(last.inner0))
    => /\ last.pos0 + Len(last.buf0) <= ISIZE_MAX => last.kind = "ok"
       /\ last.kind = "ok" => (GapZeroFilled /\ last.ret = Len(last.buf0))

\* a successful write of a non-zero byte past a gap after a non-zero byte
C5_Witness ==
  /\ last.op = "write"
  /\ last.kind = "ok"
  /\ last.pos0 > Len(last.inner0)
  /\ Len(last.inner0) > 0
  /\ last.inner0[Len(last.inner0)] # 0
  /\ Len(last.buf0) = 1
  /\ last.buf0[1] # 0
  /\ inner[last.pos0] = 0
\* C6: round trip: after writing d at position 0 (over any initial content),
\* seeking back to Start(0) and reading into a buffer of len(d) bytes, the
\* read returns len(d) and the buffer holds exactly d.
C6_RoundTrip ==
  roundtrip.stage = 3
    => /\ last.op = "read"
       /\ last.kind = "ok"
       /\ last.ret = Len(roundtrip.d)
       /\ last.buf = roundtrip.d

\* a round trip of two bytes over a longer initial buffer, read back into a
\* buffer that held something else
C6_Witness ==
  /\ roundtrip.stage = 3
  /\ Len(roundtrip.d) = 2
  /\ Len(inner) > 2
  /\ last.buf0 # roundtrip.d
  /\ roundtrip.d[1] # roundtrip.d[2]

\* C7: position monotonicity: a read returning k, a successful read_exact
\* into k bytes and a successful write returning k each increase the position
\* by exactly k, and none of the three ever decreases it.
C7_PositionMonotonic ==
  /\ last.op = "read" => (last.kind = "ok" /\ pos = last.pos0 + last.ret)
  /\ (last.op = "read_exact" /\ last.kind = "ok") => pos = last.pos0 + Len(last.buf0)
  /\ (last.op = "write" /\ last.kind = "ok") => pos = last.pos0 + last.ret
  /\ last.op \in {"read", "read_exact", "write"} => pos >= last.pos0

\* a short read: fewer bytes were left than the buffer asked for
C7_Witness ==
  /\ last.op = "read"
  /\ last.ret = 1
  /\ Len(last.buf0) = 2
  /\ last.pos0 > 0
  /\ pos = last.pos0 + 1

\* C8: read never fails and returns k = min(len(buf), remaining); it copies
\* bytes[s, s + k) with s = min(position, len(bytes)) into buf[0, k), leaves
\* buf[k, len(buf)) untouched and advances the position by k.
C8_ReadCopies ==
  last.op = "read"
    => LET s == min(last.pos0, Len(last.inner0))
           k == min(Len(last.buf0), Remaining(last.inner0, last.pos0))
       IN  /\ last.kind = "ok"
           /\ last.ret = k
           /\ Len(last.buf) = Len(last.buf0)
           /\ \A i \in 1..Len(last.buf0) :
                last.buf[i] = IF i <= k THEN last.inner0[s + i] ELSE last.buf0[i]
           /\ pos = last.pos0 + k

\* a read of exactly one byte into a two-byte buffer whose bytes both differ
\* from the byte read
C8_Witness ==
  /\ last.op = "read"
  /\ last.ret = 1
  /\ Len(last.buf0) = 2
  /\ last.buf0[1] # last.inner0[last.pos0 + 1]
  /\ last.buf0[2] # last.inner0[last.pos0 + 1]
  /\ last.buf[1] = last.inner0[last.pos0 + 1]

\* C9: when at least len(buf) bytes remain, read_exact succeeds, copies
\* exactly bytes[position, position + len(buf)) into buf and advances the
\* position by len(buf); buf and position are then those read produces on the
\* same state and buffer.
C9_ReadExactSuccess ==
  (last.op = "read_exact" /\ Remaining(last.inner0, last.pos0) >= Len(last.buf0))
    => LET r == read([inner |-> last.inner0, pos |-> last.pos0], last.buf0)
       IN  /\ last.kind = "ok"
           /\ last.buf = SubSeq(last.inner0, last.pos0 + 1, last.pos0 + Len(last.buf0))
           /\ pos = last.pos0 + Len(last.buf0)
           /\ last.buf = r.buf
           /\ pos = r.pos

\* a successful read_exact of two bytes from the middle of the buffer
C9_Witness ==
  /\ last.op = "read_exact"
  /\ last.kind = "ok"
  /\ Len(last.buf0) = 2
  /\ last.pos0 = 1
  /\ last.buf # last.buf0

\* C10: len(bytes) never decreases, and bytes changes only in a write or
\* write_all step.
C10_BytesOnlyChangedByWrites ==
  [][/\ Len(inner') >= Len(inner)
     /\ inner' # inner => last'.op \in {"write", "write_all"}]_vars

\* a read that consumed the last two bytes and left the bytes as they were
C10_Witness ==
  /\ last.op = "read"
  /\ last.ret = 2
  /\ inner = last.inner0
  /\ pos = Len(inner)
\* C11: after every successful write(buf) from position p, the position is
\* p + len(buf) and lies within the buffer (position <= len(bytes)), so every
\* index in [p, p + len(buf)) is a valid index into bytes.
C11_WriteEndsInsideBuffer ==
  (last.op = "write" /\ last.kind = "ok")
    => /\ pos = last.pos0 + Len(last.buf0)
       /\ pos <= Len(inner)
       /\ \A i \in (last.pos0 + 1)..(last.pos0 + Len(last.buf0)) : i \in DOMAIN inner

\* a successful non-empty write that started past the end of the buffer
C11_Witness ==
  /\ last.op = "write"
  /\ last.kind = "ok"
  /\ last.pos0 > Len(last.inner0)
  /\ Len(last.buf0) > 0
  /\ pos = Len(inner)

\* C12: for a non-empty buf, write_all fails exactly when write fails on the
\* same state (and panics exactly when write panics); on success
\* bytes[p, p + len(buf)) = buf, position = p + len(buf), and bytes and
\* position are those a single write(buf) leaves.
C12_WriteAllIsWrite ==
  (last.op = "write_all" /\ Len(last.buf0) > 0)
    => LET w == write([inner |-> last.inner0, pos |-> last.pos0], last.buf0)
       IN  /\ last.kind = "err" <=> w.kind = "err"
           /\ last.kind = w.kind
           /\ last.kind = "err" => last.msg = w.msg
           /\ last.kind = "ok"
                => /\ pos = last.pos0 + Len(last.buf0)
                   /\ Len(inner) >= pos
                   /\ SubSeq(inner, last.pos0 + 1, pos) = last.buf0
                   /\ inner = w.inner
                   /\ pos = w.pos

\* a successful write_all of two bytes that overwrote the last byte of the
\* buffer and appended the other
C12_Witness ==
  /\ last.op = "write_all"
  /\ Len(last.buf0) = 2
  /\ last.kind = "ok"
  /\ Len(last.inner0) > 1
  /\ last.pos0 = Len(last.inner0) - 1
  /\ Len(inner) = Len(last.inner0) + 1

\* C13: a successful write of a non-empty buf never returns 0, and no call
\* ever ends with the "failed to write whole buffer" error.
C13_NoShortWrite ==
  /\ (last.op = "write" /\ last.kind = "ok" /\ Len(last.buf0) > 0) => last.ret > 0
  /\ last.msg # "failed to write whole buffer"

\* a non-empty write_all at the very end of a non-empty buffer (no space left)
C13_Witness ==
  /\ last.op = "write_all"
  /\ Len(last.buf0) > 0
  /\ Len(last.inner0) > 0
  /\ last.pos0 = Len(last.inner0)
  /\ last.kind = "ok"

\* C14: when position >= len(bytes), read returns 0 and leaves the
\* destination buffer, the position and the bytes unchanged, and fill_buf
\* returns the empty slice.
C14_ReadPastEndIsEmpty ==
  /\ (last.op = "read" /\ last.pos0 >= Len(last.inner0))
       => /\ last.kind = "ok"
          /\ last.ret = 0
          /\ last.buf = last.buf0
          /\ pos = last.pos0
          /\ inner = last.inner0
  /\ (last.op = "fill_buf" /\ last.pos0 >= Len(last.inner0))
       => /\ last.kind = "ok"
          /\ last.slice = <<>>
          /\ pos = last.pos0
          /\ inner = last.inner0

\* a read into a non-empty buffer at a position that does not fit usize, on a
\* non-empty buffer
C14_Witness ==
  /\ last.op = "read"
  /\ last.pos0 > USIZE_MAX
  /\ Len(last.buf0) > 0
  /\ Len(last.inner0) > 0
  /\ last.ret = 0

\* C15: the write_all loop terminates for every state and every buf, having
\* invoked write exactly once when buf is non-empty and not at all when buf is
\* empty.  (Every other method is straight-line code: one step.)
C15_WriteAllTerminates ==
  /\ [](last.op = "write_all"
          => last.calls = IF Len(last.buf0) = 0 THEN 0 ELSE 1)
  /\ [](wa.pc = "loop" => wa.calls <= 1)
  /\ (wa.pc = "loop") ~> (wa = WaIdle /\ last.op = "write_all")

\* a write_all of two bytes that ended successfully after a single write call
C15_Witness ==
  /\ last.op = "write_all"
  /\ last.kind = "ok"
  /\ Len(last.buf0) = 2
  /\ last.calls = 1
  /\ pos = last.pos0 + 2

\* the loop executed step by step ends as the write_all operator computes it
LoopRefinesWriteAll ==
  last.op = "write_all"
    => LET a == write_all([inner |-> last.inner0, pos |-> last.pos0], last.buf0, 0)
       IN  /\ inner = a.inner
           /\ pos = a.pos
           /\ last.kind = a.kind
           /\ last.msg = a.msg
           /\ last.calls = a.calls

\* C16: a successful write(buf) at p on a buffer of length L keeps every byte
\* at an index i < L outside [p, p + len(buf)), and the new length is
\* max(L, p + len(buf)).
C16_WriteFrame ==
  (last.op = "write" /\ last.kind = "ok")
    => LET L == Len(last.inner0)
           p == last.pos0
           e == last.pos0 + Len(last.buf0)
       IN  /\ Len(inner) = IF L >= e THEN L ELSE e
           /\ \A i \in 1..L : (i <= p \/ i > e) => inner[i] = last.inner0[i]

\* a one-byte overwrite in the middle, with bytes before and after it
C16_Witness ==
  /\ last.op = "write"
  /\ last.kind = "ok"
  /\ last.pos0 = 1
  /\ Len(last.buf0) = 1
  /\ Len(last.inner0) = 3
  /\ last.inner0[2] # last.buf0[1]
  /\ inner[2] = last.buf0[1]

\* the amount read and read_exact add to the position
AmountAdded == IF last.op = "read" THEN last.ret
               ELSE IF last.kind = "err" THEN 0 ELSE Len(last.buf0)

\* C17: the position additions of read and read_exact never overflow u64:
\* whenever the amount added is non-zero, position + amount <= len(bytes).
C17_ReadAddNoOverflow ==
  last.op \in {"read", "read_exact"}
    => /\ last.kind # "overflow"
       /\ last.pos0 + AmountAdded <= U64_MAX
       /\ AmountAdded > 0 => last.pos0 + AmountAdded <= Len(last.inner0)
       /\ pos = last.pos0 + AmountAdded

\* a read into a non-empty buffer at position u64::MAX
C17_Witness ==
  /\ last.op = "read"
  /\ last.pos0 = U64_MAX
  /\ Len(last.buf0) = MaxBufLen
  /\ Len(last.inner0) > 0
  /\ pos = U64_MAX

\* C18: write_all with an empty buf succeeds and leaves bytes and position
\* unchanged in every state; write with an empty buf at p > len(bytes) fails
\* when p does not convert to usize and otherwise returns 0 and grows bytes
\* to length p with zeros.
C18_EmptyWrites ==
  /\ (last.op = "write_all" /\ Len(last.buf0) = 0)
       => /\ last.kind = "ok"
          /\ inner = last.inner0
          /\ pos = last.pos0
  /\ (last.op = "write" /\ Len(last.buf0) = 0 /\ last.pos0 > Len(last.inner0))
       => IF last.pos0 > USIZE_MAX
            THEN last.kind = "err"
            ELSE /\ last.kind = "ok"
                 /\ last.ret = 0
                 /\ Len(inner) = last.pos0
                 /\ SubSeq(inner, 1, Len(last.inner0)) = last.inner0
                 /\ \A i \in (Len(last.inner0) + 1)..last.pos0 : inner[i] = 0
====
